---------------------------- MODULE Spec2Model ----------------------------
(***************************************************************************)
(* Model of generate_pdf.py: markdown_to_pdf_simple and the script's entry *)
(* point.  A text is a sequence of characters, each character a string of  *)
(* length one; a character outside ASCII is written by its code point      *)
(* ("U+2022"), and a markup tag the converter inserts ("<b>", "<br/>") is  *)
(* one token.  Python's 0-based cursor i is kept 1-based here: the model's *)
(* i is Python's i + 1, and Len(lines) + 1 is Python's len(lines).         *)
(***************************************************************************)
EXTENDS Integers, Sequences, FiniteSets, TLC

VARIABLES
    REPORTLAB_AVAILABLE,  \* the module-level flag set by the import
    readable,             \* environment: whether open(md_file) succeeds
    pc,                   \* position in the script
    opened,               \* open(md_file) has been called
    printed,              \* what print() has written, in order
    lines,                \* content.split('\n')
    i,                    \* the line cursor (1-based)
    elements,             \* the list handed to doc.build
    branch,               \* the if/elif branch the latest loop iteration took
    artifact,             \* the PDF file exists
    success,              \* what markdown_to_pdf_simple returned
    exit_status           \* the process's exit status, -1 while it runs

vars == <<REPORTLAB_AVAILABLE, readable, pc, opened, printed, lines, i,
          elements, branch, artifact, success, exit_status>>

----------------------------------------------------------------------------
(* Bounds of the model *)

\* Longest document over LineVocab.
MaxLines == 4
\* Most lines between the fences of a generated long code block.
MaxCodeLines == 32
\* Most data rows of a generated long table.
MaxDataRows == 25

(* Program constants *)

CodeCap == 30
TableCap == 20
RuleWidth == 80

----------------------------------------------------------------------------
(* Strings *)

\* The character U+0060, which a TLA+ string cannot hold.
Backtick == "U+0060"

Min(a, b) == IF a < b THEN a ELSE b

\* s[k:] of Python, k counted from 0.
DropFirst(s, k) == SubSeq(s, k + 1, Len(s))

\* s[:k] of Python.
TakeFirst(s, k) == SubSeq(s, 1, Min(k, Len(s)))

\* s.startswith(p)
StartsWith(s, p) == Len(s) >= Len(p) /\ SubSeq(s, 1, Len(p)) = p

\* p occurs in s at position k (1-based).
HasAt(s, p, k) == k >= 1 /\ k + Len(p) - 1 <= Len(s) /\ SubSeq(s, k, k + Len(p) - 1) = p

\* The least position >= from at which p occurs in s, 0 when there is none.
FirstAt(s, p, from) ==
    LET hits == {k \in from..Len(s) : HasAt(s, p, k)}
    IN  IF hits = {} THEN 0 ELSE CHOOSE k \in hits : \A m \in hits : k <= m

IsSpace(c) == c \in {" ", "\t", "\r"}

IsDigit(c) == c \in {"0", "1", "2", "3", "4", "5", "6", "7", "8", "9"}

RECURSIVE LStrip(_)
LStrip(s) == IF s # <<>> /\ IsSpace(Head(s)) THEN LStrip(Tail(s)) ELSE s

RECURSIVE RStrip(_)
RStrip(s) ==
    IF s # <<>> /\ IsSpace(s[Len(s)]) THEN RStrip(SubSeq(s, 1, Len(s) - 1)) ELSE s

\* s.strip()
Strip(s) == RStrip(LStrip(s))

\* s.replace(old, new) for a one-character old.
RECURSIVE Replace(_, _, _)
Replace(s, old, new) ==
    IF s = <<>> THEN <<>>
    ELSE (IF Head(s) = old THEN new ELSE <<Head(s)>>) \o Replace(Tail(s), old, new)

\* s.replace(old, new) for a two-character old.
RECURSIVE Replace2(_, _, _)
Replace2(s, old, new) ==
    IF s = <<>> THEN <<>>
    ELSE IF StartsWith(s, old) THEN new \o Replace2(DropFirst(s, 2), old, new)
    ELSE <<Head(s)>> \o Replace2(Tail(s), old, new)

\* s.split(sep) for a one-character sep: the pieces between its occurrences.
Split(s, sep) ==
    LET at == {k \in 1..Len(s) : s[k] = sep}
        \* The position of the m-th occurrence; 0 and Len(s) + 1 bracket them.
        cut(m) == IF m = 0 THEN 0
                  ELSE IF m > Cardinality(at) THEN Len(s) + 1
                  ELSE CHOOSE k \in at : Cardinality({j \in at : j < k}) = m - 1
    IN  [m \in 1..(Cardinality(at) + 1) |-> SubSeq(s, cut(m - 1) + 1, cut(m) - 1)]

\* sep.join(parts)
RECURSIVE Join(_, _)
Join(parts, sep) ==
    IF parts = <<>> THEN <<>>
    ELSE IF Len(parts) = 1 THEN parts[1]
    ELSE parts[1] \o sep \o Join(Tail(parts), sep)

\* The length of the match of ^\d+\.  (digits, a dot, a space) at the start of
\* s, 0 when it does not match.
RECURSIVE LeadingDigits(_)
LeadingDigits(s) ==
    IF s # <<>> /\ IsDigit(Head(s)) THEN 1 + LeadingDigits(Tail(s)) ELSE 0

OrdinalMatch(s) ==
    LET n == LeadingDigits(s)
    IN  IF n >= 1 /\ HasAt(s, <<".", " ">>, n + 1) THEN n + 2 ELSE 0

----------------------------------------------------------------------------
(* re.sub of the paragraph branch *)

\* re.sub(open (.+?) close, ropen \1 rclose, t): leftmost matches, each with
\* the shortest non-empty group, scanned left to right without overlap.
RECURSIVE SubDelimFrom(_, _, _, _, _, _, _)
SubDelimFrom(t, open, close, ropen, rclose, p, acc) ==
    IF p > Len(t) THEN acc
    ELSE LET q == IF HasAt(t, open, p)
                  THEN FirstAt(t, close, p + Len(open) + 1) ELSE 0
         IN  IF q # 0
             THEN SubDelimFrom(t, open, close, ropen, rclose, q + Len(close),
                      acc \o ropen \o SubSeq(t, p + Len(open), q - 1) \o rclose)
             ELSE SubDelimFrom(t, open, close, ropen, rclose, p + 1,
                      Append(acc, t[p]))

SubDelim(t, open, close, ropen, rclose) ==
    SubDelimFrom(t, open, close, ropen, rclose, 1, <<>>)

\* re.sub(r'\[(.+?)\]\((.+?)\)', r'<u>\1</u>', t)
RECURSIVE SubLinkFrom(_, _, _)
SubLinkFrom(t, p, acc) ==
    IF p > Len(t) THEN acc
    ELSE LET q == IF t[p] = "[" THEN FirstAt(t, <<"]", "(">>, p + 2) ELSE 0
             r == IF q # 0 THEN FirstAt(t, <<")">>, q + 3) ELSE 0
         IN  IF r # 0
             THEN SubLinkFrom(t, r + 1,
                      acc \o <<"<u>">> \o SubSeq(t, p + 1, q - 1) \o <<"</u>">>)
             ELSE SubLinkFrom(t, p + 1, Append(acc, t[p]))

SubLink(t) == SubLinkFrom(t, 1, <<>>)

SubBold(t) == SubDelim(t, <<"*", "*">>, <<"*", "*">>, <<"<b>">>, <<"</b>">>)

SubItalic(t) == SubDelim(t, <<"*">>, <<"*">>, <<"<i>">>, <<"</i>">>)

SubCode(t) == SubDelim(t, <<Backtick>>, <<Backtick>>, <<"<font>">>, <<"</font>">>)

\* The four substitutions in the order the paragraph branch applies them.
InlineSub(t) == SubLink(SubCode(SubItalic(SubBold(t))))

\* The checkbox replacements of the bullet branch.
Checkboxes(t) ==
    Replace2(Replace(Replace(t, "U+2705", <<"U+2611">>), "U+274C", <<"U+2610">>),
             <<"U+26A0", "U+FE0F">>, <<"U+26A0">>)

----------------------------------------------------------------------------
(* The flowables appended to elements *)

Spacer(h) == [kind |-> "Spacer", style |-> "", text |-> <<>>, rows |-> <<>>, h |-> h]

Paragraph(text, style) ==
    [kind |-> "Paragraph", style |-> style, text |-> text, rows |-> <<>>, h |-> 0]

PageBreak == [kind |-> "PageBreak", style |-> "", text |-> <<>>, rows |-> <<>>, h |-> 0]

Table(rows, style) ==
    [kind |-> "Table", style |-> style, text |-> <<>>, rows |-> rows, h |-> 0]

\* '—' * 80
RuleGlyphs == [k \in 1..RuleWidth |-> "U+2014"]

Fence == <<Backtick, Backtick, Backtick>>

TruncatedNotice ==
    <<".", ".", ".", " ", "(", "t", "r", "u", "n", "c", "a", "t", "e", "d", ")">>

----------------------------------------------------------------------------
(* The loop body, lines 110-216 *)

\* The branch of the if/elif chain that the stripped line takes.
Classify(line) ==
    IF line = <<>> THEN "blank"
    ELSE IF StartsWith(line, <<"#", " ">>) /\ ~StartsWith(line, <<"#", "#", " ">>)
        THEN "title"
    ELSE IF StartsWith(line, <<"#", "#", " ">>)
            /\ ~StartsWith(line, <<"#", "#", "#", " ">>)
        THEN "heading1"
    ELSE IF StartsWith(line, <<"#", "#", "#", " ">>)
            /\ ~StartsWith(line, <<"#", "#", "#", "#", " ">>)
        THEN "heading2"
    ELSE IF StartsWith(line, <<"#", "#", "#", "#", " ">>) THEN "heading3"
    ELSE IF StartsWith(line, <<"-", "-", "-">>) THEN "rule"
    ELSE IF StartsWith(line, Fence) THEN "code"
    ELSE IF StartsWith(line, <<"-", " ">>) \/ StartsWith(line, <<"*", " ">>)
        THEN "bullet"
    ELSE IF OrdinalMatch(line) # 0 THEN "numbered"
    ELSE IF StartsWith(line, <<"|">>) THEN "table"
    ELSE "paragraph"

\* Mutation: the line is classified as read, without strip().
CurrentLineUnstripped == lines[i]

\* line = lines[i].strip()
CurrentLine == Strip(lines[i])

\* Mutation: the cursor is left where it was.
AdvanceStalls(k) == k

\* i += 1 at the end of the loop body (and in the blank branch).
Advance(k) == k + 1

\* The inner loop of the code branch: from cursor j, collect raw lines up to
\* a line whose stripped text starts with the fence, or to the end.
RECURSIVE CodeLoop(_, _, _)
CodeLoop(ls, j, code_lines) ==
    IF j <= Len(ls) /\ ~StartsWith(Strip(ls[j]), Fence)
    THEN CodeLoop(ls, j + 1, Append(code_lines, ls[j]))
    ELSE [i |-> j, code_lines |-> code_lines]

\* Mutation: the notice is added from CodeCap lines on, not past CodeCap.
CodeTextOffByOne(code_lines) ==
    LET joined == Join(TakeFirst(code_lines, CodeCap), <<"<br/>">>)
    IN  IF Len(code_lines) >= CodeCap
        THEN joined \o <<"<br/>">> \o TruncatedNotice
        ELSE joined

\* code_text of lines 158-160.
CodeText(code_lines) ==
    LET joined == Join(TakeFirst(code_lines, CodeCap), <<"<br/>">>)
    IN  IF Len(code_lines) > CodeCap
        THEN joined \o <<"<br/>">> \o TruncatedNotice
        ELSE joined

\* row of line 181: the cells of a raw line.
RowOf(raw) ==
    LET parts == Split(raw, "|")
        inner == SubSeq(parts, 2, Len(parts) - 1)
    IN  [c \in 1..Len(inner) |-> Strip(inner[c])]

\* all(cell.startswith('-') for cell in row)
IsSkippedRow(row) == \A c \in 1..Len(row) : StartsWith(row[c], <<"-">>)

\* The inner loop of the table branch.
RECURSIVE TableLoop(_, _, _)
TableLoop(ls, j, table_rows) ==
    IF j <= Len(ls) /\ StartsWith(Strip(ls[j]), <<"|">>)
    THEN TableLoop(ls, j + 1,
             IF ~IsSkippedRow(RowOf(ls[j]))
             THEN Append(table_rows, RowOf(ls[j])) ELSE table_rows)
    ELSE [i |-> j, table_rows |-> table_rows]

\* Mutation: the page break is appended whatever els holds.
Heading1AlwaysBreaks(els, text) ==
    <<PageBreak, Paragraph(text, "heading1_style"), Spacer(6)>>

\* Mutation: spacing is appended on both sides of the heading.
Heading1SpacedTwice(els, text) ==
    (IF Len(els) > 0 THEN <<PageBreak>> ELSE <<>>)
        \o <<Spacer(6), Paragraph(text, "heading1_style"), Spacer(6)>>

\* What the heading-1 branch appends to els.
Heading1Elements(els, text) ==
    (IF Len(els) > 0 THEN <<PageBreak>> ELSE <<>>)
        \o <<Paragraph(text, "heading1_style"), Spacer(6)>>

\* What the table branch appends.
TableElements(table_rows) ==
    IF table_rows # <<>>
    THEN <<Table(TakeFirst(table_rows, TableCap), "grid"), Spacer(12)>>
    ELSE <<>>

InLoop == pc = "scan" /\ i <= Len(lines)

ScanStep(b, newElements, newI) ==
    /\ InLoop
    /\ Classify(CurrentLine) = b
    /\ branch' = b
    /\ elements' = elements \o newElements
    /\ i' = newI
    /\ UNCHANGED <<REPORTLAB_AVAILABLE, readable, pc, opened, printed, lines,
                   artifact, success, exit_status>>

Blank == ScanStep("blank", <<Spacer(6)>>, Advance(i))

Title ==
    ScanStep("title",
        <<Paragraph(Strip(DropFirst(CurrentLine, 2)), "title_style"), Spacer(12)>>,
        Advance(i))

Heading1 ==
    ScanStep("heading1",
        Heading1Elements(elements, Strip(DropFirst(CurrentLine, 3))), Advance(i))

Heading2 ==
    ScanStep("heading2",
        <<Paragraph(Strip(DropFirst(CurrentLine, 4)), "heading2_style"), Spacer(6)>>,
        Advance(i))

Heading3 ==
    ScanStep("heading3",
        <<Paragraph(Strip(DropFirst(CurrentLine, 5)), "heading3_style"), Spacer(4)>>,
        Advance(i))

HorizontalRule ==
    ScanStep("rule",
        <<Spacer(6), Table(<< <<RuleGlyphs>> >>, "rule"), Spacer(6)>>, Advance(i))

CodeBlock ==
    LET loop == CodeLoop(lines, i + 1, <<>>)
    IN  ScanStep("code",
            <<Paragraph(CodeText(loop.code_lines), "code_style"), Spacer(6)>>,
            Advance(loop.i))

BulletItem ==
    ScanStep("bullet",
        <<Paragraph(<<"U+2022", " ">> \o Checkboxes(Strip(DropFirst(CurrentLine, 2))),
                    "body_style")>>,
        Advance(i))

NumberedItem ==
    ScanStep("numbered",
        <<Paragraph(DropFirst(CurrentLine, OrdinalMatch(CurrentLine)), "body_style")>>,
        Advance(i))

\* Mutation: the continue is missing, so line 216 advances the cursor again.
TableNextSkips(j) == j + 1

\* continue at line 201: the cursor the inner loop left is kept as it is.
TableNext(j) == j

TableRun ==
    LET loop == TableLoop(lines, i, <<>>)
    IN  ScanStep("table", TableElements(loop.table_rows), TableNext(loop.i))

RegularParagraph ==
    ScanStep("paragraph", <<Paragraph(InlineSub(CurrentLine), "body_style")>>,
        Advance(i))

----------------------------------------------------------------------------
(* Input documents: what content.split('\n') can be *)

Digit == <<"0", "1", "2", "3", "4", "5", "6", "7", "8", "9">>

\* The two decimal digits of k < 100.
TwoDigits(k) == <<Digit[(k \div 10) + 1], Digit[(k % 10) + 1]>>

Indents == {<<>>, <<" ">>}

Markers ==
    { <<>>, <<"#", " ">>, <<"#", "#", " ">>, <<"#", "#", "#", " ">>,
      <<"#", "#", "#", "#", " ">>, <<"#">>, <<"-", "-", "-">>, <<"-", "-">>,
      Fence, <<"-", " ">>, <<"*", " ">>, <<"1", ".", " ">>, <<"1", "2", ".", " ">>,
      <<"1", ".">>, <<"|">> }

Bodies ==
    { <<>>, <<"a">>, <<"*", "*", "b", "*", "*">>, <<"*", "i", "*">>,
      <<Backtick, "c", Backtick>>, <<"[", "t", "]", "(", "u", ")">>,
      <<"U+2705", "U+26A0", "U+FE0F">>,
      <<"a", "|">>, <<"-", "|">>, <<"-", "5", "|">>, <<"|">>,
      <<"-", "5", "|", "-", "|">> }

Trails == {<<>>, <<" ">>}

\* Lines built as indent, marker, body, trailing space.
WideLines ==
    {a \o m \o b \o t : a \in Indents, m \in Markers, b \in Bodies, t \in Trails}

\* Whole lines for the documents of several lines.
LineVocab ==
    { <<>>, <<"#", " ", "T", "i", "t", "l", "e">>, <<"#", "#", " ", "S">>,
      <<"-", "-", "-">>, Fence, <<"-", " ", "b">>, <<"|", "a", "|">>,
      <<"|", "-", "|">>, <<"p">> }

ShortDocs == UNION {[1..n -> LineVocab] : n \in 1..MaxLines}

OneLineDocs == {<<l>> : l \in WideLines}

CodeLine(k) == <<"c">> \o TwoDigits(k)

CodeTails == {<<>>, <<Fence>>, <<Fence, <<"p">> >>}

\* An opening fence, n numbered lines and a tail.
LongCodeDocs ==
    {<<Fence>> \o [k \in 1..n |-> CodeLine(k)] \o tail :
        n \in (CodeCap - 2)..MaxCodeLines, tail \in CodeTails}

DataRow(k) == <<"|", "r">> \o TwoDigits(k) \o <<"|">>

HeaderRow == <<"|", "h", "|">>

SeparatorRow == <<"|", "-", "-", "-", "|">>

TableHeads == {<<HeaderRow>>, <<HeaderRow, SeparatorRow>>}

TableTails == {<<>>, <<SeparatorRow>>, << <<"p">> >>}

\* A header, an optional separator row, n numbered data rows and a tail.
LongTableDocs ==
    {head \o [k \in 1..n |-> DataRow(k)] \o tail :
        head \in TableHeads, n \in (TableCap - 2)..MaxDataRows, tail \in TableTails}

Docs == ShortDocs \cup OneLineDocs \cup LongCodeDocs \cup LongTableDocs

----------------------------------------------------------------------------
(* The script *)

Init ==
    /\ REPORTLAB_AVAILABLE \in BOOLEAN
    /\ readable \in BOOLEAN
    /\ pc = "start"
    /\ opened = FALSE
    /\ printed = <<>>
    /\ lines = <<>>
    /\ i = 1
    /\ elements = <<>>
    /\ branch = "none"
    /\ artifact = FALSE
    /\ success = "unset"
    /\ exit_status = -1

Guidance == <<"reportlab not available", "Markdown file created at",
              "You can convert to PDF using", "Online", "Pandoc", "VS Code">>

\* Mutation: the fallback reports success.
FallbackReturnsTrue == "True"

\* What the function returns when reportlab is missing (line 31).
FallbackReturn == "False"

\* Lines 24-31.
Unavailable ==
    /\ pc = "start"
    /\ ~REPORTLAB_AVAILABLE
    /\ printed' = printed \o Guidance
    /\ success' = FallbackReturn
    /\ pc' = "returned"
    /\ UNCHANGED <<REPORTLAB_AVAILABLE, readable, opened, lines, i, elements,
                   branch, artifact, exit_status>>

\* Lines 34-35, 43, 107-108: the file is read and split.
ReadMarkdown ==
    /\ pc = "start"
    /\ REPORTLAB_AVAILABLE
    /\ readable
    /\ opened' = TRUE
    /\ \E d \in Docs : lines' = d
    /\ i' = 1
    /\ elements' = <<>>
    /\ pc' = "scan"
    /\ UNCHANGED <<REPORTLAB_AVAILABLE, readable, printed, branch, artifact,
                   success, exit_status>>

\* Line 34 raises: the exception leaves the function and the script.
ReadFails ==
    /\ pc = "start"
    /\ REPORTLAB_AVAILABLE
    /\ ~readable
    /\ opened' = TRUE
    /\ pc' = "raised"
    /\ UNCHANGED <<REPORTLAB_AVAILABLE, readable, printed, lines, i, elements,
                   branch, artifact, success, exit_status>>

LoopDone == pc = "scan" /\ i > Len(lines)

\* Lines 219-222.
Build ==
    /\ LoopDone
    /\ printed' = printed \o <<"Generating PDF", "PDF created">>
    /\ artifact' = TRUE
    /\ success' = "True"
    /\ pc' = "returned"
    /\ UNCHANGED <<REPORTLAB_AVAILABLE, readable, opened, lines, i, elements,
                   branch, exit_status>>

\* Line 220 raises inside the rendering library.
BuildFails ==
    /\ LoopDone
    /\ printed' = Append(printed, "Generating PDF")
    /\ pc' = "raised"
    /\ UNCHANGED <<REPORTLAB_AVAILABLE, readable, opened, lines, i, elements,
                   branch, artifact, success, exit_status>>

\* Lines 228-231: sys.exit(1) when not success, 0 at the normal end; an
\* uncaught exception ends the interpreter with status 1.
ExitStatus(p, s) == IF p = "raised" \/ s # "True" THEN 1 ELSE 0

MainExit ==
    /\ pc \in {"returned", "raised"}
    /\ exit_status' = ExitStatus(pc, success)
    /\ pc' = "exited"
    /\ UNCHANGED <<REPORTLAB_AVAILABLE, readable, opened, printed, lines, i,
                   elements, branch, artifact, success>>

Next ==
    \/ Unavailable
    \/ ReadMarkdown
    \/ ReadFails
    \/ Blank
    \/ Title
    \/ Heading1
    \/ Heading2
    \/ Heading3
    \/ HorizontalRule
    \/ CodeBlock
    \/ BulletItem
    \/ NumberedItem
    \/ TableRun
    \/ RegularParagraph
    \/ Build
    \/ BuildFails
    \/ MainExit

Spec == Init /\ [][Next]_vars

----------------------------------------------------------------------------
(* Vocabulary of the properties *)

\* What the step under way appends to elements.
Appended == SubSeq(elements', Len(elements) + 1, Len(elements'))

IsHeading1(e) == e.kind = "Paragraph" /\ e.style = "heading1_style"

IsCodeBlock(e) == e.kind = "Paragraph" /\ e.style = "code_style"

IsTableBlock(e) == e.kind = "Table" /\ e.style = "grid"

\* The styles of the kinds that carry a text payload.
TextStyles ==
    {"title_style", "heading1_style", "heading2_style", "heading3_style", "body_style"}

\* The line at which a fence opened at line k is closed: the first later line
\* that starts with the fence, or one past the end of the input.
ClosingFence(k) ==
    LET later == {j \in (k + 1)..Len(lines) : StartsWith(Strip(lines[j]), Fence)}
    IN  IF later = {} THEN Len(lines) + 1
        ELSE CHOOSE j \in later : \A m \in later : j <= m

\* The first line at or after k that is not a table line, or one past the end.
RunEnd(k) ==
    LET others == {j \in k..Len(lines) : ~StartsWith(Strip(lines[j]), <<"|">>)}
    IN  IF others = {} THEN Len(lines) + 1
        ELSE CHOOSE j \in others : \A m \in others : j <= m

\* The rules in the order the specification lists them, each with its test; a
\* line of nothing but whitespace counts as blank.
RuleOrder ==
    <<"blank", "title", "heading1", "heading2", "heading3", "rule", "code",
      "bullet", "numbered", "table">>

RuleMatches(rule, l) ==
    CASE rule = "blank" -> Strip(l) = <<>>
      [] rule = "title" -> StartsWith(l, <<"#", " ">>)
      [] rule = "heading1" -> StartsWith(l, <<"#", "#", " ">>)
      [] rule = "heading2" -> StartsWith(l, <<"#", "#", "#", " ">>)
      [] rule = "heading3" -> StartsWith(l, <<"#", "#", "#", "#", " ">>)
      [] rule = "rule" -> StartsWith(l, <<"-", "-", "-">>)
      [] rule = "code" -> StartsWith(l, Fence)
      [] rule = "bullet" -> StartsWith(l, <<"-", " ">>) \/ StartsWith(l, <<"*", " ">>)
      [] rule = "numbered" ->
            \E n \in 1..Len(l) :
                /\ \A k \in 1..n : IsDigit(l[k])
                /\ HasAt(l, <<".", " ">>, n + 1)
      [] rule = "table" -> StartsWith(l, <<"|">>)

\* The first rule of RuleOrder that matches l; the paragraph rule when none does.
FirstMatch(l) ==
    LET hits == {k \in 1..Len(RuleOrder) : RuleMatches(RuleOrder[k], l)}
    IN  IF hits = {} THEN "paragraph"
        ELSE RuleOrder[CHOOSE k \in hits : \A m \in hits : k <= m]

\* The style of the one flowable among new that is neither spacing nor a page
\* break; "Spacer" when new is spacing only, "none" when new is empty.
PrincipalStyle(new) ==
    LET main == {k \in 1..Len(new) : new[k].kind \in {"Paragraph", "Table"}}
    IN  IF new = <<>> THEN "none"
        ELSE IF main = {} THEN "Spacer"
        ELSE new[CHOOSE k \in main : TRUE].style

\* The style each rule's block is emitted with.
StyleOf(rule) ==
    CASE rule = "blank" -> {"Spacer"}
      [] rule = "title" -> {"title_style"}
      [] rule = "heading1" -> {"heading1_style"}
      [] rule = "heading2" -> {"heading2_style"}
      [] rule = "heading3" -> {"heading3_style"}
      [] rule = "rule" -> {"rule"}
      [] rule = "code" -> {"code_style"}
      [] rule \in {"bullet", "numbered", "paragraph"} -> {"body_style"}
      [] rule = "table" -> {"grid", "none"}

TitleLine == <<"#", " ", "T", "i", "t", "l", "e">>

\* A row every cell of which is made of dashes only (the specification's
\* separator row); a row without cells is not one.
OnlyDashes(cell) == cell # <<>> /\ \A k \in 1..Len(cell) : cell[k] = "-"

IsSeparatorRow(row) == Len(row) > 0 /\ \A c \in 1..Len(row) : OnlyDashes(row[c])

\* The rows of lines j..last that are not separator rows, in input order.
RECURSIVE DataRowsOf(_, _)
DataRowsOf(j, last) ==
    IF j > last THEN <<>>
    ELSE (IF IsSeparatorRow(RowOf(lines[j])) THEN <<>> ELSE <<RowOf(lines[j])>>)
            \o DataRowsOf(j + 1, last)

\* The rows of the table block among new, none when no table was emitted.
EmittedRows(new) == IF new = <<>> THEN <<>> ELSE new[1].rows

AtFence == InLoop /\ FirstMatch(Strip(lines[i])) = "code"

AtTable == InLoop /\ FirstMatch(Strip(lines[i])) = "table"

----------------------------------------------------------------------------
(* Properties *)

\* C1: every iteration of the outer loop strictly increases the cursor i and
\* leaves it at most two past the last line, so the loop runs at most
\* Len(lines) times before it exits.
C1_CursorStrictlyIncreases ==
    [][InLoop => (pc' = "scan" /\ i' > i /\ i' <= Len(lines) + 2)]_vars

\* The loop has exited after a fence that was never closed ran to the end of
\* an input of several lines.
C1_Witness ==
    /\ LoopDone
    /\ Len(lines) >= 2
    /\ branch = "code"
    /\ ClosingFence(1) = Len(lines) + 1
    /\ i = Len(lines) + 2

\* C2 as stated: the number of elements appended never exceeds the number of
\* input lines.
C2_Original_ElementsAtMostLines == Len(elements) <= Len(lines)

\* C2 as amended: the number of elements appended never exceeds three times
\* the number of input lines.
C2_ElementsAtMostThreePerLine == Len(elements) <= 3 * Len(lines)

\* The bound is met by an input of two lines that yields six elements.
C2_Witness == LoopDone /\ Len(lines) = 2 /\ Len(elements) = 6

\* C3: the payload of the code block emitted for a fence at line i is the
\* lines between it and its closing fence (or the end), joined by breaks, cut
\* to the first CodeCap of them, with the notice as a last piece exactly when
\* there were more than CodeCap.
C3_CodeBlockCapped ==
    [][AtFence =>
        LET n == ClosingFence(i) - i - 1
            body == [k \in 1..n |-> lines[i + k]]
            pieces == Split(Appended[1].text, "<br/>")
        IN  /\ Len(Appended) = 2
            /\ IsCodeBlock(Appended[1])
            /\ n = 0 => Appended[1].text = <<>>
            /\ (n > 0 /\ n <= CodeCap) => pieces = body
            /\ n > CodeCap =>
                /\ Len(pieces) = CodeCap + 1
                /\ \A k \in 1..CodeCap : pieces[k] = body[k]
                /\ pieces[CodeCap + 1] = TruncatedNotice]_vars

\* A code block of thirty source lines and the notice has been emitted.
C3_Witness ==
    \E k \in 1..Len(elements) :
        /\ IsCodeBlock(elements[k])
        /\ Len(Split(elements[k].text, "<br/>")) = CodeCap + 1
        /\ Split(elements[k].text, "<br/>")[CodeCap + 1] = TruncatedNotice
        /\ Split(elements[k].text, "<br/>")[CodeCap] = CodeLine(CodeCap)

\* C4: the table block emitted for a run of table lines holds the first
\* TableCap rows of the run that are not separator rows, in input order, and
\* no block is emitted when the run has no such row.
C4_TableIsFirstDataRows ==
    [][AtTable =>
        LET rows == DataRowsOf(i, RunEnd(i) - 1)
        IN  /\ Len(EmittedRows(Appended)) <= TableCap
            /\ EmittedRows(Appended) = TakeFirst(rows, TableCap)]_vars

\* C5: a heading-1 paragraph that is not the first element has a page break
\* right before it, one that is the first element has none, and every page
\* break stands right before a heading-1 paragraph and after some element.
C5_PageBreakBeforeHeading1 ==
    \A k \in 1..Len(elements) :
        /\ (IsHeading1(elements[k]) /\ k > 1) => elements[k - 1] = PageBreak
        /\ elements[k] = PageBreak =>
            /\ k > 1
            /\ k < Len(elements)
            /\ IsHeading1(elements[k + 1])

\* A heading 1 opens the document without a page break and a later heading 1
\* has one.
C5_Witness ==
    /\ Len(elements) >= 5
    /\ IsHeading1(elements[1])
    /\ \E k \in 3..Len(elements) : IsHeading1(elements[k]) /\ elements[k - 1] = PageBreak

\* C6: no text payload holds a marker that the inline substitutions of the
\* paragraph rule would convert.
C6_TextPayloadsConverted ==
    \A k \in 1..Len(elements) :
        (elements[k].kind = "Paragraph" /\ elements[k].style \in TextStyles)
            => InlineSub(elements[k].text) = elements[k].text

EmitsBlockOf(r) ==
    /\ branch' = r
    /\ PrincipalStyle(Appended) \in StyleOf(r)
    /\ lines[i] = TitleLine =>
        Appended[1] = Paragraph(<<"T", "i", "t", "l", "e">>, "title_style")

\* C8 as stated: each line the loop classifies gets the block of the first
\* rule, in the listed order, that matches the line as it stands in the input.
C8_Original_FirstMatchOnRawLine ==
    [][InLoop => EmitsBlockOf(FirstMatch(lines[i]))]_vars

\* C8 as amended: each line the loop classifies gets the block of the first
\* rule, in the listed order, that matches the line with its leading and
\* trailing whitespace removed.
C8_FirstMatchOnStrippedLine ==
    [][InLoop => EmitsBlockOf(FirstMatch(Strip(lines[i])))]_vars

\* An indented title line has been classified as a title.
C8_Witness ==
    /\ pc = "scan"
    /\ i = 2
    /\ branch = "title"
    /\ Head(lines[1]) = " "
    /\ elements[1].style = "title_style"

\* C9: of a run of table lines with at most TableCap rows that are not
\* separator rows, the emitted table holds a line's row exactly when the row
\* is not a separator row.
C9_OnlyAllDashRowsDropped ==
    [][AtTable =>
        LET run == i..(RunEnd(i) - 1)
            kept == {j \in run : ~IsSeparatorRow(RowOf(lines[j]))}
            emitted == EmittedRows(Appended)
        IN  Cardinality(kept) <= TableCap =>
                /\ Len(emitted) = Cardinality(kept)
                /\ \A j \in run :
                    j \in kept <=> \E r \in 1..Len(emitted) : emitted[r] = RowOf(lines[j])]_vars

=============================================================================
